---- MODULE Spec2Model ----
(***************************************************************************)
(* A model of the chat service (FastAPI routers over a SQLAlchemy session  *)
(* on PostgreSQL).  The state is the contents of the tables; a request is  *)
(* a worker running one handler.  A handler is cut at its database         *)
(* statements: every SELECT reads the rows committed at that moment        *)
(* (READ COMMITTED, the PostgreSQL default; the session is created with    *)
(* autoflush=False), rows added to the session become visible to the other *)
(* workers at db.commit() and not before.  With one worker the handlers    *)
(* run one after the other; with several workers (uvicorn processes on one *)
(* database) their statements interleave.                                  *)
(***************************************************************************)
EXTENDS Integers, Sequences, FiniteSets, TLC

VARIABLES chats, members, messages, statuses, files, apikeys,
          nextChat, nextMember, nextMsg, nextStatus, nextFile, nextKey, clock,
          proc, workers, left

tables == <<chats, members, messages, statuses, files, apikeys>>
\* the ids handed out so far, and datetime.utcnow()
counters == <<nextChat, nextMember, nextMsg, nextStatus, nextFile, nextKey, clock>>
vars == <<chats, members, messages, statuses, files, apikeys,
          nextChat, nextMember, nextMsg, nextStatus, nextFile, nextKey, clock,
          proc, workers, left>>

(* ---------------------------------------------------------------- bounds *)
\* requests issued in one behaviour
MaxReqs == 2
\* length of the member_ids list of a create_chat body
MaxMemberIds == 2
\* server processes working on the database at once
MaxWorkers == 2

(* ------------------------------------------------------------ the tables *)
\* ostad_users: no handler under src/ inserts or deletes a User row
Users == {"A", "B", "C"}
\* a well-formed id that is the id of no User row
Ghost == "X"
UserIds == Users \cup {Ghost}
\* a NULL column / a None argument
NoId == 0
NoStr == "none"
\* the values MessageStatusUpdate.validate_status accepts
StatusValues == {"sent", "delivered", "seen"}
\* what a client may send as status
StatusInputs == StatusValues \cup {"read"}

Range(s) == {s[i] : i \in DOMAIN s}
\* member_ids: List[UUID]
MemberIdLists == UNION {[1..n -> UserIds] : n \in 0..MaxMemberIds}

\* a fixed order in which the rows of one transaction get their ids
UserOrder == <<"A", "B", "C", "X">>
UserIdx(u) == CHOOSE i \in 1..Len(UserOrder) : UserOrder[i] = u
Rank(u, S) == Cardinality({v \in S : UserIdx(v) < UserIdx(u)})

(* ---------------------------------------------------------------- queries *)
\* db.query(ChatMember).filter(chat_id == c, user_id == u)
MemberRows(c, u) == {m \in members : m.chat = c /\ m.user = u}
AdminRows_AnyMember(c, u) == MemberRows(c, u)

\* ... .filter(..., is_admin == True)
AdminRows(c, u) == {m \in MemberRows(c, u) : m.admin}
\* db.query(ChatMember).filter(chat_id == c).all()
ChatMembers(c) == {m \in members : m.chat = c}
MemberUsers(c) == {m.user : m \in ChatMembers(c)}
\* db.query(Chat).filter(Chat.id == c)
ChatRows(c) == {x \in chats : x.id = c}
\* db.query(Message).filter(Message.id == m, Message.chat_id == c)
MessageRows(c, m) == {x \in messages : x.id = m /\ x.chat = c}
\* db.query(MessageStatus).filter(message_id == m, user_id == u)
StatusRows(m, u) == {s \in statuses : s.msg = m /\ s.user = u}
\* db.query(MessageStatus).filter(message_id == m).all()
MessageStatuses(m) == {s \in statuses : s.msg = m}
\* db.query(File).filter(File.id == f)
FileRows(f) == {x \in files : x.id = f}
\* db.query(APIKey).filter(APIKey.key == k, APIKey.is_active == True)
ActiveKeys(k) == {x \in apikeys : x.key = k /\ x.active}

(* ------------------------------------------------------------------ files *)
\* line 28 of files.py: the cap, in bytes
MaxFileSize == 50 * 1024
\* a payload is n bytes; two payloads are the same bytes when they have the
\* same length and the same tag
Bytes(n, tag) == [len |-> n, tag |-> tag]
\* len(content)
ByteLen(content) == content.len
\* UploadFile: the bytes, the filename and the declared content type
NoUpload == [content |-> Bytes(0, NoStr), filename |-> NoStr, content_type |-> NoStr]
Uploads ==
  {[content |-> Bytes(10 * 1024, "a"), filename |-> "a.txt", content_type |-> "text/plain"],
   [content |-> Bytes(MaxFileSize, "b"), filename |-> "b.png", content_type |-> "image/png"],
   [content |-> Bytes(MaxFileSize + 1, "c"), filename |-> "c.txt", content_type |-> "text/plain"]}
\* Response(content, media_type, headers)
NoDownload == [content |-> Bytes(0, NoStr), media_type |-> NoStr, filename |-> NoStr]

(* --------------------------------------------------------------- requests *)
Idle ==
  [pc |-> "idle", op |-> NoStr, user |-> NoStr, chat |-> NoId, tgt |-> NoStr,
   mids |-> {}, grp |-> FALSE, name |-> NoStr, msg |-> NoId, val |-> NoStr,
   file |-> NoId, rows |-> {}, row |-> NoId, adm |-> FALSE,
   key |-> NoId, up |-> NoUpload, down |-> NoDownload,
   code |-> 0, detail |-> NoStr, rid |-> NoId]

\* a worker takes a request
Accept(p) == p \in 1..workers /\ proc[p].pc = "idle" /\ left > 0
\* the endpoint handler is invoked: call_next(request), for a request without
\* an X-API-Key header (middleware.py 16-18) at once, for one with a header
\* after the key was accepted (line 40)
Start(p) == Accept(p) \/ proc[p].pc = "handler"

\* raise HTTPException(status_code, detail), or an exception that escapes the
\* handler (500): what is not committed by then is not written
Raise(r, code, detail) == [r EXCEPT !.pc = "done", !.code = code, !.detail = detail]
\* the handler returns its view
Reply(r, code, rid) == [r EXCEPT !.pc = "done", !.code = code, !.detail = "ok", !.rid = rid]
Goto(r, pc) == [r EXCEPT !.pc = pc]

Set(p, r) == proc' = [proc EXCEPT ![p] = r]
Take(p, r) ==
  Set(p, r) /\ left' = (IF proc[p].pc = "idle" THEN left - 1 ELSE left) /\ UNCHANGED workers
Step(p, r) == Set(p, r) /\ UNCHANGED <<left, workers>>

Procs == 1..MaxWorkers
\* path and body arguments: the ids handed out so far and one never handed out
ChatArgs == 1..nextChat
MsgArgs == 1..nextMsg
FileIds == 1..nextFile
\* the X-API-Key header, and the api_key_id of a path
KeyArgs == 1..nextKey
\* MessageCreate.file_id: Optional[UUID]
FileArgs == {NoId} \cup FileIds
\* the request a worker starts on
New(p) == [Idle EXCEPT !.key = proc[p].key]
\* ChatCreate.name / ChatUpdate.name (None: leave the name)
CreateNames == {"n"}
NameArgs == {NoStr, "e"}
ContentArgs == {"c"}
EditArgs == {NoStr, "e"}


(* ============================================================ chats.py *)

(* ---- create_chat ---- *)
DedupHits_OwnChatsOnly(u, mids) ==
  LET other == CHOOSE x \in mids : x # u
      existing == {c \in chats : ~c.is_group /\ AdminRows(c.id, u) # {}}
  IN {c \in existing : Cardinality(MemberUsers(c.id)) = 2 /\ other \in MemberUsers(c.id)}

\* lines 45-50: the requester's non-group chats whose member set has two
\* users, one of them the other user
DedupHits(u, mids) ==
  LET other == CHOOSE x \in mids : x # u
      existing == {c \in chats : ~c.is_group /\ MemberRows(c.id, u) # {}}
  IN {c \in existing : Cardinality(MemberUsers(c.id)) = 2 /\ other \in MemberUsers(c.id)}

DedupApplies_Groups(grp, mids) == grp /\ Cardinality(mids) = 2

\* line 33: the dedup lookup is made for a non-group chat of two users
DedupApplies(grp, mids) == ~grp /\ Cardinality(mids) = 2

NewMemberRows_CreatorOnly(c, mids, creator, base) ==
  {[id |-> base, chat |-> c, user |-> creator, admin |-> TRUE]}

NewMemberRows_AllAdmin(c, mids, creator, base) ==
  {[id |-> base + Rank(u, mids), chat |-> c, user |-> u, admin |-> TRUE] : u \in mids}

\* lines 61-68: one ChatMember row per member id, the requester the admin
NewMemberRows(c, mids, creator, base) ==
  {[id |-> base + Rank(u, mids), chat |-> c, user |-> u, admin |-> (u = creator)] : u \in mids}

\* lines 23-30: the member set, and every member must be a User
CreateChat(p) ==
  /\ Start(p)
  /\ \E u \in Users, grp \in BOOLEAN, name \in CreateNames, ml \in MemberIdLists :
     LET mids == Range(ml) \cup {u}
         r == [New(p) EXCEPT !.op = "create_chat", !.user = u, !.grp = grp,
                           !.name = name, !.mids = mids]
     IN Take(p, IF mids \subseteq Users THEN Goto(r, "cc_dedup")
                ELSE Raise(r, 404, "User with ID not found"))
  /\ UNCHANGED <<tables, counters>>

\* lines 33-50: return the existing individual chat
CcDedup(p) ==
  /\ proc[p].pc = "cc_dedup"
  /\ LET r == proc[p] IN
     IF DedupApplies(r.grp, r.mids) /\ DedupHits(r.user, r.mids) # {}
     THEN \E c \in DedupHits(r.user, r.mids) : Step(p, Reply(r, 200, c.id))
     ELSE Step(p, Goto(r, "cc_insert"))
  /\ UNCHANGED <<tables, counters>>

\* lines 53-73: the Chat row and its ChatMember rows, committed together
CcInsert(p) ==
  /\ proc[p].pc = "cc_insert"
  /\ LET r == proc[p] IN
     /\ chats' = chats \cup {[id |-> nextChat, is_group |-> r.grp, name |-> r.name]}
     /\ members' = members \cup NewMemberRows(nextChat, r.mids, r.user, nextMember)
     /\ nextChat' = nextChat + 1
     /\ nextMember' = nextMember + Cardinality(r.mids)
     /\ Step(p, Reply(r, 200, nextChat))
  /\ UNCHANGED <<messages, statuses, files, nextMsg, nextStatus, apikeys, nextFile, nextKey, clock>>

(* ---- read_chats ---- *)
\* lines 83-97: get_chat_response of every chat_id of the requester's rows;
\* a row whose chat_id is NULL has no Chat and the view assembly fails
ReadChats(p) ==
  /\ Start(p)
  /\ \E u \in Users :
     LET ids == {m.chat : m \in {x \in members : x.user = u}}
         r == [New(p) EXCEPT !.op = "read_chats", !.user = u, !.rows = ids]
     IN Take(p, IF \A c \in ids : ChatRows(c) # {} THEN Reply(r, 200, NoId)
                ELSE Raise(r, 500, "AttributeError"))
  /\ UNCHANGED <<tables, counters>>

(* ---- read_chat ---- *)
ReadChatResult_ChatOnly(r) ==
  IF ChatRows(r.chat) = {} THEN Raise(r, 404, "Chat not found") ELSE Reply(r, 200, r.chat)

\* lines 109-116
ReadChatResult(r) ==
  IF MemberRows(r.chat, r.user) = {} THEN Raise(r, 404, "Chat not found")
  ELSE IF ChatRows(r.chat) = {} THEN Raise(r, 500, "AttributeError")
  ELSE Reply(r, 200, r.chat)

ReadChat(p) ==
  /\ Start(p)
  /\ \E u \in Users, c \in ChatArgs :
       Take(p, ReadChatResult([New(p) EXCEPT !.op = "read_chat", !.user = u, !.chat = c]))
  /\ UNCHANGED <<tables, counters>>

(* ---- update_chat ---- *)
\* lines 129-135
UpdateChat(p) ==
  /\ Start(p)
  /\ \E u \in Users, c \in ChatArgs, name \in NameArgs :
     LET r == [New(p) EXCEPT !.op = "update_chat", !.user = u, !.chat = c, !.name = name] IN
        Take(p, IF AdminRows(c, u) = {} THEN Raise(r, 403, "Not authorized to update chat")
                ELSE Goto(r, "uc_commit"))
  /\ UNCHANGED <<tables, counters>>

\* lines 138-149
UcCommit(p) ==
  /\ proc[p].pc = "uc_commit"
  /\ LET r == proc[p] IN
     IF ChatRows(r.chat) = {}
     THEN Step(p, Raise(r, 404, "Chat not found")) /\ UNCHANGED chats
     ELSE /\ chats' = {IF x.id = r.chat /\ r.name # NoStr THEN [x EXCEPT !.name = r.name] ELSE x
                        : x \in chats}
          /\ Step(p, Reply(r, 200, r.chat))
  /\ UNCHANGED <<members, messages, statuses, files, apikeys, counters>>

(* ---- delete_chat ---- *)
\* lines 161-167
DeleteChat(p) ==
  /\ Start(p)
  /\ \E u \in Users, c \in ChatArgs :
     LET r == [New(p) EXCEPT !.op = "delete_chat", !.user = u, !.chat = c] IN
        Take(p, IF AdminRows(c, u) = {} THEN Raise(r, 403, "Not authorized to delete chat")
                ELSE Goto(r, "dc_commit"))
  /\ UNCHANGED <<tables, counters>>

\* a Message of chat c INSERTed (flushed) by a transaction still open: the
\* row is invisible to the other workers and references the Chat row
Flushed(c) == \E q \in Procs : proc[q].pc \in {"cm_members", "cm_commit"} /\ proc[q].chat = c

\* lines 170-177: db.delete(db_chat).  Chat.members and Chat.messages carry no
\* delete cascade, so the unit of work sets chat_id of the chat's ChatMember
\* and Message rows to NULL (models.py 52-53, 59, 72) and deletes the Chat row.
\* The DELETE waits for a transaction that has flushed a Message of the chat
\* and then fails on that Message's foreign key: nothing is written
DcCommit(p) ==
  /\ proc[p].pc = "dc_commit"
  /\ LET r == proc[p] IN
     IF ChatRows(r.chat) = {}
     THEN Step(p, Raise(r, 404, "Chat not found")) /\ UNCHANGED <<chats, members, messages>>
     ELSE IF Flushed(r.chat)
     THEN Step(p, Raise(r, 500, "IntegrityError")) /\ UNCHANGED <<chats, members, messages>>
     ELSE /\ chats' = chats \ ChatRows(r.chat)
          /\ members' = {IF m.chat = r.chat THEN [m EXCEPT !.chat = NoId] ELSE m : m \in members}
          /\ messages' = {IF m.chat = r.chat THEN [m EXCEPT !.chat = NoId] ELSE m : m \in messages}
          /\ Step(p, Reply(r, 204, NoId))
  /\ UNCHANGED <<statuses, files, apikeys, counters>>

(* ---- add_chat_member ---- *)
IndividualChat_Never(c) == FALSE

\* lines 202 and 254: not db_chat.is_group
IndividualChat(c) == \E x \in ChatRows(c) : ~x.is_group

\* lines 190-196
AddMember(p) ==
  /\ Start(p)
  /\ \E u \in Users, c \in ChatArgs, t \in UserIds :
     LET r == [New(p) EXCEPT !.op = "add_member", !.user = u, !.chat = c, !.tgt = t] IN
        Take(p, IF AdminRows(c, u) = {} THEN Raise(r, 403, "Not authorized to add members")
                ELSE Goto(r, "am_chat"))
  /\ UNCHANGED <<tables, counters>>

\* lines 199-208
AmChat(p) ==
  /\ proc[p].pc = "am_chat"
  /\ LET r == proc[p] IN
     Step(p, IF ChatRows(r.chat) = {} THEN Raise(r, 404, "Chat not found")
             ELSE IF IndividualChat(r.chat)
                  THEN Raise(r, 400, "Cannot add members to individual chat")
             ELSE IF r.tgt \notin Users THEN Raise(r, 404, "User not found")
             ELSE Goto(r, "am_dup"))
  /\ UNCHANGED <<tables, counters>>

AmDup_NoCheck(p) ==
  /\ proc[p].pc = "am_dup"
  /\ Step(p, Goto(proc[p], "am_commit"))
  /\ UNCHANGED <<tables, counters>>

\* lines 211-216
AmDup(p) ==
  /\ proc[p].pc = "am_dup"
  /\ LET r == proc[p] IN
     Step(p, IF MemberRows(r.chat, r.tgt) # {}
             THEN Raise(r, 400, "User is already a member of chat")
             ELSE Goto(r, "am_commit"))
  /\ UNCHANGED <<tables, counters>>

AddedRow_Admin(id, c, u) == [id |-> id, chat |-> c, user |-> u, admin |-> TRUE]

\* lines 219-224: the new ChatMember row
AddedRow(id, c, u) == [id |-> id, chat |-> c, user |-> u, admin |-> FALSE]

\* lines 219-227: the INSERT; chat_id is a foreign key, so the insert of a row
\* for a chat deleted meanwhile fails (IntegrityError)
AmCommit(p) ==
  /\ proc[p].pc = "am_commit"
  /\ LET r == proc[p] IN
     IF ChatRows(r.chat) = {}
     THEN Step(p, Raise(r, 500, "IntegrityError")) /\ UNCHANGED <<members, nextMember>>
     ELSE /\ members' = members \cup {AddedRow(nextMember, r.chat, r.tgt)}
          /\ nextMember' = nextMember + 1
          /\ Step(p, Reply(r, 200, r.chat))
  /\ UNCHANGED <<chats, messages, statuses, files, nextChat, nextMsg, nextStatus, apikeys, nextFile, nextKey, clock>>

(* ---- remove_chat_member ---- *)
MayRemove_AnyCaller(isAdmin, isSelf) == TRUE

MayRemove_AdminOnly(isAdmin, isSelf) == isAdmin

\* line 247
MayRemove(isAdmin, isSelf) == isAdmin \/ isSelf

\* lines 240-248
RemoveMember(p) ==
  /\ Start(p)
  /\ \E u \in Users, c \in ChatArgs, t \in UserIds :
     LET r == [New(p) EXCEPT !.op = "remove_member", !.user = u, !.chat = c, !.tgt = t] IN
        Take(p, IF ~MayRemove(AdminRows(c, u) # {}, u = t)
                THEN Raise(r, 403, "Not authorized to remove members")
                ELSE Goto(r, "rm_chat"))
  /\ UNCHANGED <<tables, counters>>

\* lines 251-255
RmChat(p) ==
  /\ proc[p].pc = "rm_chat"
  /\ LET r == proc[p] IN
     Step(p, IF ChatRows(r.chat) = {} THEN Raise(r, 404, "Chat not found")
             ELSE IF IndividualChat(r.chat)
                  THEN Raise(r, 400, "Cannot remove members from individual chat")
             ELSE Goto(r, "rm_find"))
  /\ UNCHANGED <<tables, counters>>

\* lines 258-263: .first() of the target's rows
RmFind(p) ==
  /\ proc[p].pc = "rm_find"
  /\ LET r == proc[p] IN
     IF MemberRows(r.chat, r.tgt) = {}
     THEN Step(p, Raise(r, 404, "User is not a member of chat"))
     ELSE \E m \in MemberRows(r.chat, r.tgt) : Step(p, [Goto(r, "rm_commit") EXCEPT !.row = m.id])
  /\ UNCHANGED <<tables, counters>>

RmCommit_WholeRoster(p) ==
  /\ proc[p].pc = "rm_commit"
  /\ members' = {m \in members : m.chat # proc[p].chat}
  /\ Step(p, Reply(proc[p], 200, proc[p].chat))
  /\ UNCHANGED <<chats, messages, statuses, files, apikeys, counters>>

\* lines 266-269: DELETE of the row found, by primary key (a row deleted
\* meanwhile: StaleDataError), then the view of the chat (a chat deleted
\* meanwhile: db_chat is None)
RmCommit(p) ==
  /\ proc[p].pc = "rm_commit"
  /\ LET r == proc[p] IN
     IF \A m \in members : m.id # r.row
     THEN Step(p, Raise(r, 500, "StaleDataError")) /\ UNCHANGED members
     ELSE /\ members' = {m \in members : m.id # r.row}
          /\ Step(p, IF ChatRows(r.chat) = {} THEN Raise(r, 500, "AttributeError")
                     ELSE Reply(r, 200, r.chat))
  /\ UNCHANGED <<chats, messages, statuses, files, apikeys, counters>>

(* ========================================================= messages.py *)

(* ---- create_message ---- *)
InitialStatus_AllSent(u, sender) == "sent"

\* line 50
InitialStatus(u, sender) == IF u = sender THEN "seen" ELSE "sent"

\* lines 49-56: one MessageStatus row per ChatMember row read at line 48
FanOutRows(m, snap, sender, base) ==
  {[id |-> base + Cardinality({y \in snap : y.id < x.id}), msg |-> m, user |-> x.user,
    status |-> InitialStatus(x.user, sender)] : x \in snap}

\* lines 24-29
CreateMessage(p) ==
  /\ Start(p)
  /\ \E u \in Users, c \in ChatArgs, content \in ContentArgs, f \in FileArgs :
     LET r == [New(p) EXCEPT !.op = "create_message", !.user = u, !.chat = c,
                              !.val = content, !.file = f] IN
        Take(p, IF MemberRows(c, u) = {} THEN Raise(r, 404, "Chat not found")
                ELSE Goto(r, "cm_file"))
  /\ UNCHANGED <<tables, counters>>

\* lines 32-45: the file lookup, then the Message is flushed (it gets its id;
\* chat_id is a foreign key, a chat deleted meanwhile fails the INSERT, and
\* from here to the commit the Chat row cannot be deleted)
CmFile(p) ==
  /\ proc[p].pc = "cm_file"
  /\ LET r == proc[p] IN
     IF r.file # NoId /\ FileRows(r.file) = {}
     THEN Step(p, Raise(r, 404, "File not found")) /\ UNCHANGED nextMsg
     ELSE IF ChatRows(r.chat) = {}
     THEN Step(p, Raise(r, 500, "IntegrityError")) /\ UNCHANGED nextMsg
     ELSE Step(p, [Goto(r, "cm_members") EXCEPT !.rid = nextMsg]) /\ nextMsg' = nextMsg + 1
  /\ UNCHANGED <<tables, nextChat, nextMember, nextStatus, nextFile, nextKey, clock>>

\* line 48: the members the status rows are made for
CmMembers(p) ==
  /\ proc[p].pc = "cm_members"
  /\ LET r == proc[p] IN
     Step(p, [Goto(r, "cm_commit") EXCEPT !.rows = ChatMembers(r.chat)])
  /\ UNCHANGED <<tables, counters>>

\* lines 49-61: the status rows are added and everything is committed
CmCommit(p) ==
  /\ proc[p].pc = "cm_commit"
  /\ LET r == proc[p] IN
     /\ messages' = messages \cup
            {[id |-> r.rid, chat |-> r.chat, sender |-> r.user,
              content |-> r.val, file |-> r.file]}
     /\ statuses' = statuses \cup FanOutRows(r.rid, r.rows, r.user, nextStatus)
     /\ nextStatus' = nextStatus + Cardinality(r.rows)
     /\ Step(p, Reply(r, 200, r.rid))
  /\ UNCHANGED <<chats, members, files, nextChat, nextMember, nextMsg, apikeys, nextFile, nextKey, clock>>

(* ---- read_messages ---- *)
\* lines 75-98
ReadMessagesResult(r) ==
  IF MemberRows(r.chat, r.user) = {} THEN Raise(r, 404, "Chat not found")
  ELSE [Reply(r, 200, NoId) EXCEPT !.rows = {x.id : x \in {y \in messages : y.chat = r.chat}}]

ReadMessages(p) ==
  /\ Start(p)
  /\ \E u \in Users, c \in ChatArgs :
       Take(p, ReadMessagesResult([New(p) EXCEPT !.op = "read_messages", !.user = u, !.chat = c]))
  /\ UNCHANGED <<tables, counters>>

(* ---- read_message ---- *)
ReadMessageResult_MessageFirst(r) ==
  IF MessageRows(r.chat, r.msg) = {} THEN Raise(r, 404, "Message not found")
  ELSE IF MemberRows(r.chat, r.user) = {} THEN Raise(r, 404, "Chat not found")
  ELSE Reply(r, 200, r.msg)

\* lines 111-126
ReadMessageResult(r) ==
  IF MemberRows(r.chat, r.user) = {} THEN Raise(r, 404, "Chat not found")
  ELSE IF MessageRows(r.chat, r.msg) = {} THEN Raise(r, 404, "Message not found")
  ELSE Reply(r, 200, r.msg)

ReadMessage(p) ==
  /\ Start(p)
  /\ \E u \in Users, c \in ChatArgs, m \in MsgArgs :
       Take(p, ReadMessageResult([New(p) EXCEPT !.op = "read_message", !.user = u,
                                              !.chat = c, !.msg = m]))
  /\ UNCHANGED <<tables, counters>>

(* ---- update_message ---- *)
\* lines 140-145
UpdateMessage(p) ==
  /\ Start(p)
  /\ \E u \in Users, c \in ChatArgs, m \in MsgArgs, content \in EditArgs :
     LET r == [New(p) EXCEPT !.op = "update_message", !.user = u, !.chat = c, !.msg = m,
                              !.val = content] IN
        Take(p, IF MemberRows(c, u) = {} THEN Raise(r, 404, "Chat not found")
                ELSE Goto(r, "um_commit"))
  /\ UNCHANGED <<tables, counters>>

MayEdit_AnyMember(sender, user) == TRUE

\* line 157
MayEdit(sender, user) == sender = user

\* lines 148-166
UmCommit(p) ==
  /\ proc[p].pc = "um_commit"
  /\ LET r == proc[p] IN
     IF MessageRows(r.chat, r.msg) = {}
     THEN Step(p, Raise(r, 404, "Message not found")) /\ UNCHANGED messages
     ELSE IF \E x \in MessageRows(r.chat, r.msg) : ~MayEdit(x.sender, r.user)
     THEN Step(p, Raise(r, 403, "Not authorized to update message")) /\ UNCHANGED messages
     ELSE /\ messages' = {IF x.id = r.msg /\ r.val # NoStr THEN [x EXCEPT !.content = r.val] ELSE x
                           : x \in messages}
          /\ Step(p, Reply(r, 200, r.msg))
  /\ UNCHANGED <<chats, members, statuses, files, apikeys, counters>>

(* ---- delete_message ---- *)
\* lines 179-184: the membership row found is kept for its is_admin (line 196)
DeleteMessage(p) ==
  /\ Start(p)
  /\ \E u \in Users, c \in ChatArgs, m \in MsgArgs :
     LET r == [New(p) EXCEPT !.op = "delete_message", !.user = u, !.chat = c, !.msg = m] IN
        IF MemberRows(c, u) = {} THEN Take(p, Raise(r, 404, "Chat not found"))
        ELSE \E row \in MemberRows(c, u) : Take(p, [Goto(r, "dm_commit") EXCEPT !.adm = row.admin])
  /\ UNCHANGED <<tables, counters>>

MayDelete_SenderOnly(isSender, isAdmin) == isSender

\* lines 195-198
MayDelete(isSender, isAdmin) == isSender \/ isAdmin

\* lines 187-205: db.delete(db_message).  Message.statuses carries no delete
\* cascade, so message_id of the message's MessageStatus rows is set to NULL
\* (models.py 83, 89) and the Message row is deleted
DmCommit(p) ==
  /\ proc[p].pc = "dm_commit"
  /\ LET r == proc[p] IN
     IF MessageRows(r.chat, r.msg) = {}
     THEN Step(p, Raise(r, 404, "Message not found")) /\ UNCHANGED <<messages, statuses>>
     ELSE IF ~MayDelete(\E x \in MessageRows(r.chat, r.msg) : x.sender = r.user, r.adm)
     THEN Step(p, Raise(r, 403, "Not authorized to delete message"))
          /\ UNCHANGED <<messages, statuses>>
     ELSE /\ messages' = messages \ MessageRows(r.chat, r.msg)
          /\ statuses' = {IF s.msg = r.msg THEN [s EXCEPT !.msg = NoId] ELSE s : s \in statuses}
          /\ Step(p, Reply(r, 204, NoId))
  /\ UNCHANGED <<chats, members, files, apikeys, counters>>

(* ---- update_message_status ---- *)
ValidStatus_Any(v) == TRUE

\* schemas.py 96-100
ValidStatus(v) == v \in StatusValues

\* schemas.py 93-100 (the body is validated before the handler runs: a
\* ValueError of the validator is answered 422), then lines 219-224
UpdateStatus(p) ==
  /\ Start(p)
  /\ \E u \in Users, c \in ChatArgs, m \in MsgArgs, v \in StatusInputs :
     LET r == [New(p) EXCEPT !.op = "update_status", !.user = u, !.chat = c, !.msg = m,
                              !.val = v] IN
        Take(p, IF ~ValidStatus(v) THEN Raise(r, 422, "Status must be one of: sent, delivered, seen")
                ELSE IF MemberRows(c, u) = {} THEN Raise(r, 404, "Chat not found")
                ELSE Goto(r, "us_msg"))
  /\ UNCHANGED <<tables, counters>>

\* lines 227-232
UsMsg(p) ==
  /\ proc[p].pc = "us_msg"
  /\ LET r == proc[p] IN
     Step(p, IF MessageRows(r.chat, r.msg) = {} THEN Raise(r, 404, "Message not found")
             ELSE Goto(r, "us_find"))
  /\ UNCHANGED <<tables, counters>>

\* lines 235-238: .first() of the requester's status rows, or None
UsFind(p) ==
  /\ proc[p].pc = "us_find"
  /\ LET r == proc[p] IN
     IF StatusRows(r.msg, r.user) = {}
     THEN Step(p, [Goto(r, "us_commit") EXCEPT !.row = NoId])
     ELSE \E s \in StatusRows(r.msg, r.user) : Step(p, [Goto(r, "us_commit") EXCEPT !.row = s.id])
  /\ UNCHANGED <<tables, counters>>

StatusRank(v) == CASE v = "sent" -> 1 [] v = "delivered" -> 2 [] OTHER -> 3

Upsert_NoRegress(rows, row, m, u, v, base) ==
  IF row = NoId
  THEN rows \cup {[id |-> base, msg |-> m, user |-> u, status |-> v]}
  ELSE {IF s.id = row /\ StatusRank(v) > StatusRank(s.status) THEN [s EXCEPT !.status = v] ELSE s
        : s \in rows}

Upsert_WholeMessage(rows, row, m, u, v, base) ==
  IF row = NoId
  THEN rows \cup {[id |-> base, msg |-> m, user |-> u, status |-> v]}
  ELSE {IF s.msg = m THEN [s EXCEPT !.status = v] ELSE s : s \in rows}

\* lines 240-250: a new row, or the row found with its status overwritten
Upsert(rows, row, m, u, v, base) ==
  IF row = NoId
  THEN rows \cup {[id |-> base, msg |-> m, user |-> u, status |-> v]}
  ELSE {IF s.id = row THEN [s EXCEPT !.status = v] ELSE s : s \in rows}

\* lines 240-255; message_id is a foreign key, the INSERT of a row for a
\* message deleted meanwhile fails; the UPDATE of a row found is committed and
\* the view of a message deleted meanwhile fails after it (db_message is None)
UsCommit(p) ==
  /\ proc[p].pc = "us_commit"
  /\ LET r == proc[p] IN
     IF r.row = NoId /\ {x \in messages : x.id = r.msg} = {}
     THEN Step(p, Raise(r, 500, "IntegrityError")) /\ UNCHANGED <<statuses, nextStatus>>
     ELSE /\ statuses' = Upsert(statuses, r.row, r.msg, r.user, r.val, nextStatus)
          /\ nextStatus' = IF r.row = NoId THEN nextStatus + 1 ELSE nextStatus
          /\ Step(p, IF {x \in messages : x.id = r.msg} = {} THEN Raise(r, 500, "AttributeError")
                     ELSE Reply(r, 200, r.msg))
  /\ UNCHANGED <<chats, members, messages, files, nextChat, nextMember, nextMsg, apikeys, nextFile, nextKey, clock>>

(* ============================================================= files.py *)

(* ---- upload_file ---- *)
\* line 28
FitsCap(content) == ByteLen(content) <= MaxFileSize

\* lines 32-37
NewFileRow(id, up) ==
  [id |-> id, filename |-> up.filename, content_type |-> up.content_type,
   size |-> ByteLen(up.content), data |-> up.content]

\* lines 25-42 (current_user is not used)
UploadFile(p) ==
  /\ Start(p)
  /\ \E up \in Uploads :
     LET r == [New(p) EXCEPT !.op = "upload_file", !.up = up] IN
     IF ~FitsCap(up.content)
     THEN Take(p, Raise(r, 400, "File size exceeds 50KB limit")) /\ UNCHANGED <<files, nextFile>>
     ELSE /\ files' = files \cup {NewFileRow(nextFile, up)}
          /\ nextFile' = nextFile + 1
          /\ Take(p, Reply(r, 200, nextFile))
  /\ UNCHANGED <<chats, members, messages, statuses, apikeys,
                 nextChat, nextMember, nextMsg, nextStatus, nextKey, clock>>

(* ---- read_files ---- *)
\* lines 54-55, with the default skip and limit
ReadFiles(p) ==
  /\ Start(p)
  /\ Take(p, [Reply([New(p) EXCEPT !.op = "read_files"], 200, NoId)
                EXCEPT !.rows = {x.id : x \in files}])
  /\ UNCHANGED <<tables, counters>>

(* ---- read_file_info ---- *)
\* lines 66-70
ReadFileInfo(p) ==
  /\ Start(p)
  /\ \E f \in FileIds :
     LET r == [New(p) EXCEPT !.op = "read_file_info", !.file = f] IN
     Take(p, IF FileRows(f) = {} THEN Raise(r, 404, "File not found") ELSE Reply(r, 200, f))
  /\ UNCHANGED <<tables, counters>>

(* ---- download_file ---- *)
DownloadResult_OctetStream(r) ==
  IF FileRows(r.file) = {} THEN Raise(r, 404, "File not found")
  ELSE LET f == CHOOSE x \in FileRows(r.file) : TRUE IN
       [Reply(r, 200, r.file) EXCEPT !.down = [content |-> f.data,
                                               media_type |-> "application/octet-stream",
                                               filename |-> f.filename]]

\* lines 81-89 (File.id is the primary key: at most one row)
DownloadResult(r) ==
  IF FileRows(r.file) = {} THEN Raise(r, 404, "File not found")
  ELSE LET f == CHOOSE x \in FileRows(r.file) : TRUE IN
       [Reply(r, 200, r.file) EXCEPT !.down = [content |-> f.data,
                                               media_type |-> f.content_type,
                                               filename |-> f.filename]]

DownloadFile(p) ==
  /\ Start(p)
  /\ \E f \in FileIds : Take(p, DownloadResult([New(p) EXCEPT !.op = "download_file", !.file = f]))
  /\ UNCHANGED <<tables, counters>>

(* ---- delete_file ---- *)
\* lines 100-102
DeleteFile(p) ==
  /\ Start(p)
  /\ \E f \in FileIds :
     LET r == [New(p) EXCEPT !.op = "delete_file", !.file = f] IN
     Take(p, IF FileRows(f) = {} THEN Raise(r, 404, "File not found") ELSE Goto(r, "df_commit"))
  /\ UNCHANGED <<tables, counters>>

\* lines 104-107: db.delete(db_file).  File.message carries no delete cascade:
\* the unit of work loads the one Message of the relationship (uselist=False),
\* sets its file_id to NULL and deletes the File row; a second Message that
\* refers to the file, committed or flushed by a transaction still open, fails
\* the DELETE on its foreign key (models.py 75, 109).
\* A row deleted meanwhile: StaleDataError
DfCommit(p) ==
  /\ proc[p].pc = "df_commit"
  /\ LET r == proc[p]
         refs == {m \in messages : m.file = r.file}
         flushed == \E q \in Procs : /\ proc[q].pc \in {"cm_members", "cm_commit"}
                                      /\ proc[q].file = r.file
     IN IF FileRows(r.file) = {}
        THEN Step(p, Raise(r, 500, "StaleDataError")) /\ UNCHANGED <<files, messages>>
        ELSE IF Cardinality(refs) > 1 \/ flushed
        THEN Step(p, Raise(r, 500, "IntegrityError")) /\ UNCHANGED <<files, messages>>
        ELSE /\ files' = files \ FileRows(r.file)
             /\ messages' = {IF m \in refs THEN [m EXCEPT !.file = NoId] ELSE m : m \in messages}
             /\ Step(p, Reply(r, 204, NoId))
  /\ UNCHANGED <<chats, members, statuses, apikeys, counters>>

(* ========================================================== api_keys.py *)
\* lines 23-35: secrets.token_hex(32) is a key no row holds yet
CreateApiKey(p) ==
  /\ Start(p)
  /\ \E u \in Users :
     /\ apikeys' = apikeys \cup
            {[id |-> nextKey, key |-> nextKey, user |-> u, active |-> TRUE, last_used |-> NoId]}
     /\ nextKey' = nextKey + 1
     /\ Take(p, Reply([New(p) EXCEPT !.op = "create_api_key", !.user = u], 200, nextKey))
  /\ UNCHANGED <<chats, members, messages, statuses, files,
                 nextChat, nextMember, nextMsg, nextStatus, nextFile, clock>>

\* lines 45-46
ReadApiKeys(p) ==
  /\ Start(p)
  /\ \E u \in Users :
     Take(p, [Reply([New(p) EXCEPT !.op = "read_api_keys", !.user = u], 200, NoId)
               EXCEPT !.rows = {x.id : x \in {y \in apikeys : y.user = u}}])
  /\ UNCHANGED <<tables, counters>>

\* lines 57-59
DeleteApiKey(p) ==
  /\ Start(p)
  /\ \E u \in Users, k \in KeyArgs :
     LET r == [New(p) EXCEPT !.op = "delete_api_key", !.user = u, !.row = k] IN
     Take(p, IF {x \in apikeys : x.id = k /\ x.user = u} = {}
             THEN Raise(r, 404, "API key not found")
             ELSE Goto(r, "dk_commit"))
  /\ UNCHANGED <<tables, counters>>

\* lines 61-64 (a row deleted meanwhile: StaleDataError)
DkCommit(p) ==
  /\ proc[p].pc = "dk_commit"
  /\ LET r == proc[p] IN
     IF \A x \in apikeys : x.id # r.row
     THEN Step(p, Raise(r, 500, "StaleDataError")) /\ UNCHANGED apikeys
     ELSE /\ apikeys' = {x \in apikeys : x.id # r.row}
          /\ Step(p, Reply(r, 204, NoId))
  /\ UNCHANGED <<chats, members, messages, statuses, files, counters>>

(* ========================================================= middleware.py *)
\* lines 24-28: the HTTPException is raised in the middleware, outside the
\* application's exception handlers (which answer an HTTPException with its
\* status code only when a route raises it): the server answers 500
InvalidKeyCode == 500

\* lines 12-13: "/", "/docs" and the authentication endpoints are served
\* whatever the X-API-Key header holds (main.py 54-55)
Root(p) ==
  /\ Accept(p)
  /\ \E k \in {NoId} \cup KeyArgs :
     Take(p, Reply([Idle EXCEPT !.op = "root", !.row = k], 200, NoId))
  /\ UNCHANGED <<tables, counters>>

\* lines 16-28: a request to any other path that carries an X-API-Key header
Dispatch(p) ==
  /\ Accept(p)
  /\ \E k \in KeyArgs :
     LET r == [Idle EXCEPT !.op = "dispatch", !.row = k] IN
     Take(p, IF ActiveKeys(k) = {} THEN Raise(r, InvalidKeyCode, "Internal Server Error")
             ELSE Goto(r, "mw_commit"))
  /\ UNCHANGED <<tables, counters>>

\* lines 31-40: last_used_at is written and committed, the key is attached to
\* request.state, and the handler is called (a row deleted meanwhile:
\* StaleDataError)
MwCommit(p) ==
  /\ proc[p].pc = "mw_commit"
  /\ LET r == proc[p] IN
     IF \A x \in apikeys : x.key # r.row
     THEN Step(p, Raise(r, 500, "StaleDataError")) /\ UNCHANGED <<apikeys, clock>>
     ELSE /\ apikeys' = {IF x.key = r.row THEN [x EXCEPT !.last_used = clock + 1] ELSE x
                          : x \in apikeys}
          /\ clock' = clock + 1
          /\ Step(p, [Goto(r, "handler") EXCEPT !.key = r.row])
  /\ UNCHANGED <<chats, members, messages, statuses, files,
                 nextChat, nextMember, nextMsg, nextStatus, nextFile, nextKey>>

(* ================================================================ system *)
\* the response is sent; the worker is free again
Return(p) ==
  /\ proc[p].pc = "done"
  /\ Step(p, Idle)
  /\ UNCHANGED <<tables, counters>>

\* the tables as init_db() creates them
EmptyDb ==
  /\ chats = {} /\ members = {} /\ messages = {} /\ statuses = {} /\ files = {}
  /\ apikeys = {}
  /\ nextChat = 1 /\ nextMember = 1 /\ nextMsg = 1 /\ nextStatus = 1
  /\ nextFile = 1 /\ nextKey = 1 /\ clock = 0

\* the upload of a.txt
SeedUpload == CHOOSE up \in Uploads : up.filename = "a.txt"

\* the tables after upload_file(a.txt), create_chat(A, is_group, member_ids = []),
\* create_message(A) and add_member(A, B), one after the other: B joined after
\* the message was sent, C is no member, the file is attached to no message
LateJoinerDb ==
  /\ chats = {[id |-> 1, is_group |-> TRUE, name |-> "n"]}
  /\ members = NewMemberRows(1, {"A"}, "A", 1)
                 \cup {[id |-> 2, chat |-> 1, user |-> "B", admin |-> FALSE]}
  /\ messages = {[id |-> 1, chat |-> 1, sender |-> "A", content |-> "c", file |-> NoId]}
  /\ statuses = FanOutRows(1, NewMemberRows(1, {"A"}, "A", 1), "A", 1)
  /\ files = {NewFileRow(1, SeedUpload)}
  /\ apikeys = {}
  /\ nextChat = 2 /\ nextMember = 3 /\ nextMsg = 2 /\ nextStatus = 2
  /\ nextFile = 2 /\ nextKey = 1 /\ clock = 0

Boot == (EmptyDb \/ LateJoinerDb) /\ proc = [p \in Procs |-> Idle] /\ left = MaxReqs

\* one server process: the handlers run one after the other
Init == Boot /\ workers = 1
\* several server processes on one database
InitConc == Boot /\ workers = MaxWorkers

Next ==
  \E p \in Procs :
    \/ CreateChat(p) \/ CcDedup(p) \/ CcInsert(p)
    \/ ReadChats(p) \/ ReadChat(p)
    \/ UpdateChat(p) \/ UcCommit(p)
    \/ DeleteChat(p) \/ DcCommit(p)
    \/ AddMember(p) \/ AmChat(p) \/ AmDup(p) \/ AmCommit(p)
    \/ RemoveMember(p) \/ RmChat(p) \/ RmFind(p) \/ RmCommit(p)
    \/ CreateMessage(p) \/ CmFile(p) \/ CmMembers(p) \/ CmCommit(p)
    \/ ReadMessages(p) \/ ReadMessage(p)
    \/ UpdateMessage(p) \/ UmCommit(p)
    \/ DeleteMessage(p) \/ DmCommit(p)
    \/ UpdateStatus(p) \/ UsMsg(p) \/ UsFind(p) \/ UsCommit(p)
    \/ UploadFile(p) \/ ReadFiles(p) \/ ReadFileInfo(p) \/ DownloadFile(p)
    \/ DeleteFile(p) \/ DfCommit(p)
    \/ CreateApiKey(p) \/ ReadApiKeys(p) \/ DeleteApiKey(p) \/ DkCommit(p)
    \/ Root(p) \/ Dispatch(p) \/ MwCommit(p)
    \/ Return(p)

Spec == Init /\ [][Next]_vars
SpecConc == InitConc /\ [][Next]_vars
\* either deployment
InitAny == Boot /\ workers \in {1, MaxWorkers}
SpecAny == InitAny /\ [][Next]_vars

(* ================================================================ claims *)
\* worker p's request ends in this step; its record is proc'[p]
Finishes(p) == proc[p].pc # "done" /\ proc'[p].pc = "done"
Done(p, op) == proc[p].pc = "done" /\ proc[p].op = op
\* the status rows of (m, u) in a table of status rows
StatusRowsIn(tbl, m, u) == {s \in tbl : s.msg = m /\ s.user = u}

\* the non-group chats whose member set is S
PairChats(S) == {c \in chats : ~c.is_group /\ MemberUsers(c.id) = S}
Pairs == {S \in SUBSET Users : Cardinality(S) = 2}

(* C1.  Non-overlapping create_chat calls with is_group = false for the same
   two users all return the same chat, and only the first inserts rows.
   Stated on one worker as: (a) when such a call has returned, the chat it
   returned is the one and only non-group chat of the pair; (b) the call
   inserts a chat only when the pair has none; (c) as long as a non-group
   chat is not deleted it keeps its id, its flag and its member set, so the
   chat of (a) is the same one from call to call. *)
C1_Returned ==
  \A p \in Procs :
    (Done(p, "create_chat") /\ proc[p].code = 200 /\ ~proc[p].grp
       /\ Cardinality(proc[p].mids) = 2)
    => /\ Cardinality(PairChats(proc[p].mids)) = 1
       /\ \A c \in PairChats(proc[p].mids) : c.id = proc[p].rid
C1_InsertsOnce ==
  \A p \in Procs :
    (proc[p].pc = "cc_insert" /\ ~proc[p].grp /\ Cardinality(proc[p].mids) = 2
       /\ chats' # chats)
    => PairChats(proc[p].mids) = {}
C1_Kept ==
  \A S \in Pairs : \A c \in PairChats(S) :
    (\E x \in chats' : x.id = c.id) => \E x \in PairChats(S)' : x.id = c.id
C1_DedupIdempotent == [](C1_Returned) /\ [][C1_InsertsOnce /\ C1_Kept]_vars
\* user B has asked for the chat with A that A created before, and got it
C1_Witness ==
  \E p \in Procs :
    /\ Done(p, "create_chat") /\ proc[p].code = 200 /\ ~proc[p].grp
    /\ proc[p].mids = {"A", "B"} /\ proc[p].user = "B"
    /\ AdminRows(proc[p].rid, "A") # {}
    /\ nextChat = 2

(* C2.  When create_message has succeeded on one worker, the new message has
   one status row per member row of the chat: seen for the sender, sent for
   every other member. *)
C2_FanOut ==
  \A p \in Procs :
    (Done(p, "create_message") /\ proc[p].code = 200)
    => LET m == proc[p].rid
           c == proc[p].chat
       IN /\ Cardinality(MessageStatuses(m)) = Cardinality(ChatMembers(c))
          /\ \A u \in Users : Cardinality(StatusRows(m, u)) = Cardinality(MemberRows(c, u))
          /\ \A s \in MessageStatuses(m) :
               s.status = IF s.user = proc[p].user THEN "seen" ELSE "sent"
\* a message posted in a chat of three members
C2_Witness ==
  \E p \in Procs :
    /\ Done(p, "create_message") /\ proc[p].code = 200
    /\ MemberUsers(proc[p].chat) = Users
    /\ Cardinality(MessageStatuses(proc[p].rid)) = 3

(* C3.  In every reachable state, interleaved requests included, there is at
   most one ChatMember row per (chat, user). *)
C3_UniqueMembership ==
  \A c \in chats : \A u \in Users : Cardinality(MemberRows(c.id, u)) <= 1

(* C4.  read_chat, read_messages and read_message by a user with no
   membership row in the chat answer 404 "Chat not found", whether or not the
   chat or the message exists. *)
ReadOps == {"read_chat", "read_messages", "read_message"}
C4_ReadHidden ==
  \A p \in Procs :
    (proc[p].pc = "done" /\ proc[p].op \in ReadOps
       /\ MemberRows(proc[p].chat, proc[p].user) = {})
    => proc[p].code = 404 /\ proc[p].detail = "Chat not found"
\* a non-member has asked for an existing message of an existing chat
C4_Witness ==
  \E p \in Procs :
    /\ Done(p, "read_message") /\ MemberRows(proc[p].chat, proc[p].user) = {}
    /\ ChatRows(proc[p].chat) # {} /\ MessageRows(proc[p].chat, proc[p].msg) # {}
    /\ proc[p].code = 404

(* C5.  Every operation on a chat or its sub-resources answers NotFound (404)
   to a caller who is no member of the chat at the time of the call, and
   never Forbidden or anything else.  The premise is read in the state the
   request ends from: on one worker that is the state it was issued in. *)
ChatScopedOps ==
  {"update_chat", "delete_chat", "add_member", "remove_member", "create_message",
   "update_message", "delete_message", "update_status"}
C5_NonMemberStep ==
  \A p \in Procs :
    (Finishes(p) /\ proc'[p].op \in ChatScopedOps
       /\ MemberRows(proc'[p].chat, proc'[p].user) = {})
    => proc'[p].code = 404
C5_NonMemberNotFound == [][C5_NonMemberStep]_vars

(* C6.  update_status by a member of the chat, on a message of the chat, with
   one of sent, delivered, seen succeeds whatever the member's status was, the
   member's row holds the new value afterwards, and a call that repeats the
   value the row already holds leaves the status rows as they are. *)
C6_Step ==
  \A p \in Procs :
    (Finishes(p) /\ proc'[p].op = "update_status"
       /\ proc'[p].val \in StatusValues
       /\ MemberRows(proc'[p].chat, proc'[p].user) # {}
       /\ MessageRows(proc'[p].chat, proc'[p].msg) # {})
    => LET before == StatusRows(proc'[p].msg, proc'[p].user)
           after == StatusRowsIn(statuses', proc'[p].msg, proc'[p].user)
       IN /\ proc'[p].code = 200
          /\ after # {}
          /\ \A s \in after : s.status = proc'[p].val
          /\ (before # {} /\ \A s \in before : s.status = proc'[p].val)
               => statuses' = statuses
C6_StatusAlwaysSettable == [][C6_Step]_vars
\* the sender, whose row was created as seen, has set it back to sent
C6_Witness ==
  \E p \in Procs :
    /\ Done(p, "update_status") /\ proc[p].code = 200 /\ proc[p].val = "sent"
    /\ proc[p].row # NoId
    /\ \E m \in MessageRows(proc[p].chat, proc[p].msg) : m.sender = proc[p].user
    /\ \A s \in StatusRows(proc[p].msg, proc[p].user) : s.status = "sent"

(* C7.  A successful update_status changes the requester's status row of the
   message and nothing else: without such a row one row with the new value is
   created, otherwise the row is overwritten in place; the rows of other users
   and of other messages, and the message, stay as they are. *)
C7_Step ==
  \A p \in Procs :
    (Finishes(p) /\ proc'[p].op = "update_status" /\ proc'[p].code = 200)
    => LET m == proc'[p].msg
           u == proc'[p].user
           before == StatusRows(m, u)
           after == StatusRowsIn(statuses', m, u)
       IN /\ {s \in statuses' : ~(s.msg = m /\ s.user = u)}
               = {s \in statuses : ~(s.msg = m /\ s.user = u)}
          /\ UNCHANGED <<chats, members, messages, files>>
          /\ \A s \in after : s.status = proc'[p].val
          /\ IF before = {} THEN Cardinality(after) = 1
             ELSE {s.id : s \in after} = {s.id : s \in before}
C7_StatusFrame == [][C7_Step]_vars
\* a member who joined after the message was sent has set a status: the
\* handler found no row (row is None) and created one beside the sender's
C7_Witness ==
  \E p \in Procs :
    /\ Done(p, "update_status") /\ proc[p].code = 200 /\ proc[p].row = NoId
    /\ Cardinality(StatusRows(proc[p].msg, proc[p].user)) = 1
    /\ \E s \in MessageStatuses(proc[p].msg) : s.user # proc[p].user

(* C8.  update_status with a value other than sent, delivered, seen is
   answered InvalidArgument (422) and changes no status row; in every
   reachable state every status row holds one of the three values. *)
C8_Step ==
  \A p \in Procs :
    (Finishes(p) /\ proc'[p].op = "update_status" /\ proc'[p].val \notin StatusValues)
    => proc'[p].code = 422 /\ statuses' = statuses
C8_Values == \A s \in statuses : s.status \in StatusValues
C8_InvalidStatusRejected == [](C8_Values) /\ [][C8_Step]_vars
\* a member has sent an unknown value for a message of the chat
C8_Witness ==
  \E p \in Procs :
    /\ Done(p, "update_status") /\ proc[p].val \notin StatusValues
    /\ MemberRows(proc[p].chat, proc[p].user) # {}
    /\ MessageRows(proc[p].chat, proc[p].msg) # {}
    /\ proc[p].code = 422

(* C9.  In a group chat remove_member by a member who is not an admin is
   answered Forbidden (403) and changes no membership row when the target is
   another user, and succeeds and deletes the caller's own row and no other
   when the target is the caller. *)
C9_Step ==
  \A p \in Procs :
    (Finishes(p) /\ proc'[p].op = "remove_member"
       /\ (\E x \in ChatRows(proc'[p].chat) : x.is_group)
       /\ MemberRows(proc'[p].chat, proc'[p].user) # {}
       /\ AdminRows(proc'[p].chat, proc'[p].user) = {})
    => IF proc'[p].tgt # proc'[p].user
       THEN proc'[p].code = 403 /\ members' = members
       ELSE /\ proc'[p].code = 200
            /\ Cardinality(MemberRows(proc'[p].chat, proc'[p].user)) = 1
            /\ members' = members \ MemberRows(proc'[p].chat, proc'[p].user)
C9_RemoveByNonAdmin == [][C9_Step]_vars
\* a non-admin member of a group chat was refused the removal of another member
C9_Witness ==
  \E p \in Procs :
    /\ Done(p, "remove_member") /\ proc[p].code = 403
    /\ \E x \in ChatRows(proc[p].chat) : x.is_group
    /\ MemberRows(proc[p].chat, proc[p].user) # {}
    /\ AdminRows(proc[p].chat, proc[p].user) = {}
    /\ proc[p].tgt # proc[p].user
    /\ MemberRows(proc[p].chat, proc[p].tgt) # {}

(* C10.  The status fan-out is atomic with the creation of the message: in the
   step that commits a message, the users who hold a status row of it are the
   members of the chat at that instant, one row each, and there is at least
   one row. *)
C10_Step ==
  \A p \in Procs :
    (Finishes(p) /\ proc'[p].op = "create_message" /\ proc'[p].code = 200)
    => LET m == proc'[p].rid
           c == proc'[p].chat
       IN /\ {s \in statuses' : s.msg = m} # {}
          /\ {s.user : s \in {s \in statuses' : s.msg = m}} = {x.user : x \in {y \in members' : y.chat = c}}
          /\ \A u \in Users : Cardinality(StatusRowsIn(statuses', m, u)) <= 1
C10_FanOutAtomic == [][C10_Step]_vars

(* C11.  In every reachable state, interleaved update_status requests and the
   create_message fan-out included, there is at most one MessageStatus row per
   (message, user). *)
C11_UniqueStatus ==
  \A m \in messages : \A u \in Users : Cardinality(StatusRows(m.id, u)) <= 1

(* C12.  Two non-group chats with the same two-user member set exist only where
   requests overlap (several workers): two create_chat calls for the pair both
   make the dedup lookup before either commits, and both insert.  With one
   worker no such state is reached. *)
C12_RaceNeedsOverlap ==
  (\E S \in Pairs : Cardinality(PairChats(S)) > 1) => workers > 1
\* two overlapping create_chat calls for one pair have returned different chats
C12_Witness ==
  \E p, q \in Procs :
    /\ Done(p, "create_chat") /\ Done(q, "create_chat")
    /\ proc[p].code = 200 /\ proc[q].code = 200
    /\ ~proc[p].grp /\ ~proc[q].grp
    /\ proc[p].mids = proc[q].mids /\ Cardinality(proc[p].mids) = 2
    /\ proc[p].rid # proc[q].rid
    /\ {c.id : c \in PairChats(proc[p].mids)} = {proc[p].rid, proc[q].rid}

(* C13.  A request that ends in a validation or authorization error (4xx, or
   the rejection of an API key by the middleware) has written none of the
   stored chats, membership rows, messages, status rows and files: the rows
   change only in the step that ends a request, and not when it ends in such
   an error.  create_chat commits the chat with one membership row per member,
   or nothing; create_message commits the message with one status row per
   member row it read, or nothing. *)
Stored == <<chats, members, messages, statuses, files>>
ErrorCodes == {400, 401, 403, 404, 413, 422}
C13_ErrorsWriteNothing ==
  /\ Stored' # Stored => \E p \in Procs : Finishes(p)
  /\ \A p \in Procs :
       (Finishes(p) /\ (proc'[p].code \in ErrorCodes \/ proc'[p].op = "dispatch"))
       => Stored' = Stored
C13_ChatWhole ==
  \A p \in Procs :
    (Finishes(p) /\ proc'[p].op = "create_chat")
    => \/ Stored' = Stored
       \/ /\ proc'[p].code = 200
          /\ \E c \in chats' \ chats :
               /\ chats' = chats \cup {c} /\ c.id = proc'[p].rid
               /\ members \subseteq members'
               /\ \A m \in members' \ members : m.chat = c.id
               /\ \A u \in proc'[p].mids :
                    Cardinality({m \in members' \ members : m.user = u}) = 1
               /\ Cardinality(members' \ members) = Cardinality(proc'[p].mids)
          /\ UNCHANGED <<messages, statuses, files>>
C13_MessageWhole ==
  \A p \in Procs :
    (Finishes(p) /\ proc'[p].op = "create_message")
    => \/ Stored' = Stored
       \/ /\ proc'[p].code = 200
          /\ \E m \in messages' \ messages :
               /\ messages' = messages \cup {m} /\ m.id = proc'[p].rid
               /\ statuses \subseteq statuses'
               /\ \A s \in statuses' \ statuses : s.msg = m.id
               /\ Cardinality(statuses' \ statuses) = Cardinality(proc[p].rows)
               /\ {s.user : s \in statuses' \ statuses} = {x.user : x \in proc[p].rows}
          /\ UNCHANGED <<chats, members, files>>
C13_ErrorAtomicity == [][C13_ErrorsWriteNothing /\ C13_ChatWhole /\ C13_MessageWhole]_vars
\* a chat of three was committed whole; an add_member refused as a duplicate
\* left the rows alone
C13_Witness ==
  \E p \in Procs :
    /\ Done(p, "add_member") /\ proc[p].code = 400
    /\ proc[p].detail = "User is already a member of chat"
    /\ \E c \in chats : c.id = proc[p].chat /\ MemberUsers(c.id) = Users
    /\ Cardinality(ChatMembers(proc[p].chat)) = 3

(* C14.  add_member by an admin of the chat: refused as an invalid operation
   (400 "Cannot add members to individual chat") when the chat is no group
   chat, refused as a conflict (400 "User is already a member of chat") when
   the target has a membership row, no row added in either case; in a group
   chat, for a target who is a user and has no row, exactly one row is added,
   the target's, not an admin. *)
C14_Step ==
  \A p \in Procs :
    (Finishes(p) /\ proc'[p].op = "add_member"
       /\ AdminRows(proc'[p].chat, proc'[p].user) # {} /\ ChatRows(proc'[p].chat) # {})
    => LET r == proc'[p]
           added == members' \ members
       IN IF \E x \in ChatRows(r.chat) : ~x.is_group
          THEN /\ r.code = 400 /\ r.detail = "Cannot add members to individual chat"
               /\ members' = members
          ELSE IF r.tgt \in Users /\ MemberRows(r.chat, r.tgt) # {}
          THEN /\ r.code = 400 /\ r.detail = "User is already a member of chat"
               /\ members' = members
          ELSE r.tgt \in Users
               => /\ r.code = 200
                  /\ members \subseteq members' /\ Cardinality(added) = 1
                  /\ \A m \in added : m.chat = r.chat /\ m.user = r.tgt /\ ~m.admin
C14_AddMemberOutcomes == [][C14_Step]_vars
\* the admin of a group chat was refused a second row for a member
C14_Witness ==
  \E p \in Procs :
    /\ Done(p, "add_member") /\ proc[p].code = 400
    /\ proc[p].detail = "User is already a member of chat"
    /\ AdminRows(proc[p].chat, proc[p].user) # {}
    /\ Cardinality(MemberRows(proc[p].chat, proc[p].tgt)) = 1
\* the creator of an individual chat was refused a third member
C14_WitnessIndividual ==
  \E p \in Procs :
    /\ Done(p, "add_member") /\ proc[p].code = 400
    /\ proc[p].detail = "Cannot add members to individual chat"
    /\ AdminRows(proc[p].chat, proc[p].user) # {}

(* C15.  delete_message of a message of the chat, by a requester who has a
   membership row in the chat, succeeds (204, the Message row is gone) exactly
   when the requester is the sender of the message or an admin of the chat;
   otherwise it is answered Forbidden (403) and the messages and the status
   rows stay as they are. *)
C15_Step ==
  \A p \in Procs :
    (Finishes(p) /\ proc'[p].op = "delete_message"
       /\ MemberRows(proc'[p].chat, proc'[p].user) # {}
       /\ MessageRows(proc'[p].chat, proc'[p].msg) # {})
    => LET r == proc'[p] IN
       IF (\E x \in MessageRows(r.chat, r.msg) : x.sender = r.user) \/ AdminRows(r.chat, r.user) # {}
       THEN r.code = 204 /\ \A x \in messages' : x.id # r.msg
       ELSE r.code = 403 /\ messages' = messages /\ statuses' = statuses
C15_DeleteBySenderOrAdmin == [][C15_Step]_vars
\* a member who is neither the sender nor an admin was refused
C15_Witness ==
  \E p \in Procs :
    /\ Done(p, "delete_message") /\ proc[p].code = 403
    /\ MemberRows(proc[p].chat, proc[p].user) # {} /\ AdminRows(proc[p].chat, proc[p].user) = {}
    /\ \E x \in MessageRows(proc[p].chat, proc[p].msg) : x.sender # proc[p].user
(* C15 as stated, for every requester: the sender of the message succeeds
   whether or not the sender still has a membership row. *)
C15_OriginalStep ==
  \A p \in Procs :
    (Finishes(p) /\ proc'[p].op = "delete_message"
       /\ MessageRows(proc'[p].chat, proc'[p].msg) # {})
    => LET r == proc'[p] IN
       (r.code = 204) <=> ((\E x \in MessageRows(r.chat, r.msg) : x.sender = r.user)
                            \/ AdminRows(r.chat, r.user) # {})
C15_Original == [][C15_OriginalStep]_vars

(* C16.  In every reachable state every MessageStatus row refers to a Message
   row that exists: delete_message leaves no status row of the message
   behind. *)
C16_NoOrphanStatus ==
  \A s \in statuses : \E m \in messages : m.id = s.msg

(* C17.  update_message succeeds only for the sender of the message and
   changes nothing but the content of that message: the Message rows keep
   their ids, chats, senders and file references, every other message keeps
   its content, and the chats, membership rows, status rows and files are
   unchanged.  A member of the chat who is not the sender is answered
   Forbidden (403) and the messages are unchanged. *)
C17_Step ==
  \A p \in Procs :
    (Finishes(p) /\ proc'[p].op = "update_message")
    => LET r == proc'[p] IN
       /\ r.code = 200
            => /\ \E x \in MessageRows(r.chat, r.msg) : x.sender = r.user
               /\ {[x EXCEPT !.content = NoStr] : x \in messages'}
                    = {[x EXCEPT !.content = NoStr] : x \in messages}
               /\ \A x \in messages : x.id # r.msg => x \in messages'
               /\ \A y \in messages' : y.id = r.msg
                    => \E x \in messages : x.id = r.msg /\
                         y.content = (IF r.val = NoStr THEN x.content ELSE r.val)
               /\ UNCHANGED <<chats, members, statuses, files>>
       /\ (/\ MemberRows(r.chat, r.user) # {}
           /\ \E x \in MessageRows(r.chat, r.msg) : x.sender # r.user)
            => r.code = 403 /\ Stored' = Stored
C17_UpdateMessageFrame == [][C17_Step]_vars
\* the sender has replaced the content of the message
C17_Witness ==
  \E p \in Procs :
    /\ Done(p, "update_message") /\ proc[p].code = 200 /\ proc[p].val = "e"
    /\ \E x \in MessageRows(proc[p].chat, proc[p].msg) :
         x.sender = proc[p].user /\ x.content = "e"
    /\ MessageStatuses(proc[p].msg) # {}
\* a member who is not the sender was refused
C17_WitnessForbidden ==
  \E p \in Procs :
    /\ Done(p, "update_message") /\ proc[p].code = 403
    /\ MemberRows(proc[p].chat, proc[p].user) # {}
    /\ \E x \in MessageRows(proc[p].chat, proc[p].msg) : x.content = "c"

(* C18.  upload of a payload of more than 51200 bytes is answered
   PayloadTooLarge (413) and stores nothing; a payload of at most 51200 bytes
   is stored as one new File row whose size is the number of bytes. *)
C18_Step ==
  \A p \in Procs :
    (Finishes(p) /\ proc'[p].op = "upload_file")
    => LET r == proc'[p] IN
       IF ByteLen(r.up.content) > 51200
       THEN r.code = 413 /\ files' = files
       ELSE /\ r.code = 200
            /\ \E f \in files' \ files :
                 /\ files' = files \cup {f} /\ f.id = r.rid
                 /\ f.size = ByteLen(r.up.content) /\ f.data = r.up.content
C18_UploadCap == [][C18_Step]_vars

(* C19.  A download of the id an accepted upload returned gives back the bytes
   and the content type of that upload, as long as the file is not deleted;
   the id of a file that was never uploaded or was deleted is answered
   NotFound (404).  Stated as: (a) an accepted upload stores its bytes and its
   content type under an id no File row ever had; (b) as long as a File row
   exists it is not changed, whatever else is uploaded or deleted; (c) a
   download answers with the bytes and the content type of the row of that id,
   and with 404 when there is no such row. *)
C19_FreshIds == \A f \in files : f.id < nextFile
C19_Stored ==
  \A p \in Procs :
    (Finishes(p) /\ proc'[p].op = "upload_file" /\ proc'[p].code = 200)
    => /\ proc'[p].rid = nextFile /\ nextFile' > nextFile
       /\ \E f \in files' : /\ f.id = proc'[p].rid
                             /\ f.data = proc'[p].up.content
                             /\ f.content_type = proc'[p].up.content_type
C19_Kept ==
  /\ nextFile' >= nextFile
  /\ \A f \in files : (\E g \in files' : g.id = f.id) => f \in files'
  /\ \A f, g \in files : f.id = g.id => f = g
C19_Returned ==
  \A p \in Procs :
    (Finishes(p) /\ proc'[p].op = "download_file")
    => LET r == proc'[p] IN
       IF FileRows(r.file) = {} THEN r.code = 404
       ELSE /\ r.code = 200
            /\ \A f \in FileRows(r.file) :
                 r.down.content = f.data /\ r.down.media_type = f.content_type
C19_DownloadRoundTrip == [](C19_FreshIds) /\ [][C19_Stored /\ C19_Kept /\ C19_Returned]_vars
\* the 51200 bytes uploaded as image/png were downloaded
C19_Witness ==
  \E p \in Procs :
    /\ Done(p, "download_file") /\ proc[p].code = 200
    /\ proc[p].down.content = Bytes(MaxFileSize, "b")
    /\ proc[p].down.media_type = "image/png"
\* the id of a deleted file was asked for
C19_WitnessDeleted ==
  \E p \in Procs :
    /\ Done(p, "download_file") /\ proc[p].code = 404 /\ proc[p].file < nextFile

(* C20.  A request to a non-exempt path: with an X-API-Key header that matches
   no active APIKey row it is answered Unauthenticated (401), no handler runs
   and no last_used_at changes; with the key of an active row, last_used_at of
   that row is set to the time of the request and the key is attached before
   the handler runs; without a header the handler runs with no key attached
   and no last_used_at changes. *)
LastUsed(tbl) == {<<x.id, x.last_used>> : x \in tbl}
C20_Rejected ==
  \A p \in Procs :
    (proc[p].pc = "idle" /\ proc'[p].op = "dispatch" /\ ActiveKeys(proc'[p].row) = {})
    => /\ proc'[p].pc = "done" /\ proc'[p].code = 401
       /\ apikeys' = apikeys
C20_Accepted ==
  \A p \in Procs :
    (proc[p].op = "dispatch" /\ proc'[p].pc = "handler")
    => /\ proc'[p].key = proc[p].row /\ ActiveKeys(proc[p].row) # {}
       /\ \A x \in apikeys' : x.key = proc[p].row => x.last_used = clock' /\ clock' > clock
       /\ \A x \in ActiveKeys(proc[p].row) : x.last_used < clock'
C20_HandlerEntry ==
  \A p \in Procs :
    (proc'[p].op \notin {NoStr, "dispatch", "root"} /\ proc[p].op # proc'[p].op)
    => \/ proc[p].pc = "handler" /\ proc'[p].key = proc[p].key /\ proc[p].key # NoId
       \/ proc[p].pc = "idle" /\ proc'[p].key = NoId /\ LastUsed(apikeys') \subseteq
                                                         LastUsed(apikeys) \cup {<<nextKey, NoId>>}
C20_ApiKeyMiddleware == [][C20_Rejected /\ C20_Accepted /\ C20_HandlerEntry]_vars

(* C21.  In the step in which create_chat commits a new chat, interleaved
   requests included, the membership rows of the chat are one row per user of
   member_ids and the requester, the requester's row is the admin row and no
   other is; a Chat row appears in no other step, so that no request reads the
   chat without these rows, and no membership row refers to a chat id not yet
   handed out. *)
C21_Step ==
  \A p \in Procs :
    (Finishes(p) /\ proc'[p].op = "create_chat" /\ chats' # chats)
    => LET r == proc'[p]
           rows == {m \in members' : m.chat = r.rid}
       IN /\ \E c \in chats' : c.id = r.rid /\ chats' = chats \cup {c} /\ c \notin chats
          /\ {m.user : m \in rows} = r.mids
          /\ \A u \in r.mids : Cardinality({m \in rows : m.user = u}) = 1
          /\ \A m \in rows : m.admin <=> (m.user = r.user)
          /\ rows \cap members = {}
C21_Appears ==
  \A c \in chats' : (\A x \in chats : x.id # c.id)
    => \E p \in Procs : Finishes(p) /\ proc'[p].op = "create_chat" /\ proc'[p].rid = c.id
C21_NoEarlyRows == \A m \in members : m.chat < nextChat
C21_CreateChatRows == [](C21_NoEarlyRows) /\ [][C21_Step /\ C21_Appears]_vars
\* a chat of three users was committed while another request was in progress
C21_Witness ==
  \E p, q \in Procs :
    /\ p # q /\ proc[q].pc \notin {"idle", "done"}
    /\ Done(p, "create_chat") /\ proc[p].code = 200 /\ proc[p].mids = Users
    /\ proc[p].rid = nextChat - 1
    /\ Cardinality(ChatMembers(proc[p].rid)) = 3
    /\ Cardinality({m \in ChatMembers(proc[p].rid) : m.admin}) = 1

(* C22.  A chat with is_group = false has exactly two membership rows, of two
   users, when it is created: create_chat commits no non-group chat whose
   member set (member_ids and the requester) has one user or three or more. *)
C22_Step ==
  \A p \in Procs :
    (Finishes(p) /\ proc'[p].op = "create_chat" /\ chats' # chats /\ ~proc'[p].grp)
    => LET rows == {m \in members' : m.chat = proc'[p].rid}
       IN Cardinality(rows) = 2 /\ Cardinality({m.user : m \in rows}) = 2
C22_IndividualHasTwo == [][C22_Step]_vars

(* C23.  In a group chat a member may always remove themself: remove_member
   with the caller as target, by a caller who has a membership row, admin or
   not, succeeds and deletes that row and no other.  In a chat that is no
   group chat the same call is refused (400 "Cannot remove members from
   individual chat") and the membership rows stay as they are. *)
C23_Step ==
  \A p \in Procs :
    (Finishes(p) /\ proc'[p].op = "remove_member" /\ proc'[p].tgt = proc'[p].user
       /\ MemberRows(proc'[p].chat, proc'[p].user) # {})
    => LET r == proc'[p] IN
       IF \E x \in ChatRows(r.chat) : x.is_group
       THEN /\ r.code = 200
            /\ Cardinality(MemberRows(r.chat, r.user)) = 1
            /\ members' = members \ MemberRows(r.chat, r.user)
       ELSE /\ r.code = 400 /\ r.detail = "Cannot remove members from individual chat"
            /\ members' = members
C23_SelfRemoval == [][C23_Step]_vars
\* the admin of a group chat has left it; the other member is still there
C23_Witness ==
  \E p \in Procs :
    /\ Done(p, "remove_member") /\ proc[p].code = 200 /\ proc[p].tgt = proc[p].user
    /\ \E x \in ChatRows(proc[p].chat) : x.is_group
    /\ MemberRows(proc[p].chat, proc[p].user) = {}
    /\ ChatMembers(proc[p].chat) # {} /\ \A m \in ChatMembers(proc[p].chat) : ~m.admin
\* a member of an individual chat was refused
C23_WitnessIndividual ==
  \E p \in Procs :
    /\ Done(p, "remove_member") /\ proc[p].code = 400 /\ proc[p].tgt = proc[p].user
    /\ \E x \in ChatRows(proc[p].chat) : ~x.is_group
    /\ AdminRows(proc[p].chat, proc[p].user) = {}
    /\ MemberRows(proc[p].chat, proc[p].user) # {}
(* C23 as stated, for every chat, group chat or not: the call succeeds and
   deletes the caller's row. *)
C23_OriginalStep ==
  \A p \in Procs :
    (Finishes(p) /\ proc'[p].op = "remove_member" /\ proc'[p].tgt = proc'[p].user
       /\ MemberRows(proc'[p].chat, proc'[p].user) # {})
    => /\ proc'[p].code = 200
       /\ \A m \in members' : ~(m.chat = proc'[p].chat /\ m.user = proc'[p].user)
C23_Original == [][C23_OriginalStep]_vars

(* C24.  In every reachable state every ChatMember row and every Message row
   refers to a Chat row that exists: a successful delete_chat leaves no
   membership row and no message of the chat behind. *)
C24_NoOrphanRows ==
  /\ \A m \in members : ChatRows(m.chat) # {}
  /\ \A x \in messages : ChatRows(x.chat) # {}

(* C25.  In the step that commits a new message, whatever remove_member or
   delete_chat request ran between the membership check of create_message and
   its commit, the sender has a membership row in the chat of the message and
   a status row of the message with the value seen. *)
C25_Step ==
  \A p \in Procs :
    (Finishes(p) /\ proc'[p].op = "create_message" /\ proc'[p].code = 200)
    => LET r == proc'[p] IN
       /\ \E m \in members' : m.chat = r.chat /\ m.user = r.user
       /\ \E s \in StatusRowsIn(statuses', r.rid, r.user) : s.status = "seen"
C25_SenderIsMember == [][C25_Step]_vars

(* C26.  remove_member by a caller who may remove the target (an admin of the
   chat, or the target): in a group chat in which the target has no membership
   row it is answered NotFound (404 "User is not a member of chat"), in a chat
   that is no group chat it is refused (400); the membership rows stay as they
   are in both cases.  A call that succeeds deletes one row, the target's row
   in the chat, and leaves every other membership row, the chats, the messages
   and the status rows, the target's included, as they are. *)
C26_Step ==
  \A p \in Procs :
    (Finishes(p) /\ proc'[p].op = "remove_member")
    => LET r == proc'[p] IN
       /\ (MayRemove(AdminRows(r.chat, r.user) # {}, r.user = r.tgt) /\ ChatRows(r.chat) # {})
            => IF \E x \in ChatRows(r.chat) : ~x.is_group
               THEN r.code = 400 /\ members' = members
               ELSE MemberRows(r.chat, r.tgt) = {}
                    => /\ r.code = 404 /\ r.detail = "User is not a member of chat"
                       /\ members' = members
       /\ r.code = 200
            => /\ members' \subseteq members
               /\ Cardinality(members \ members') = 1
               /\ \A m \in members \ members' : m.chat = r.chat /\ m.user = r.tgt
               /\ UNCHANGED <<chats, messages, statuses, files>>
       /\ r.code # 200 => members' = members
C26_RemoveMemberFrame == [][C26_Step]_vars
\* the admin has removed another member from a group chat in which a message
\* had been sent
C26_Witness ==
  \E p \in Procs :
    /\ Done(p, "remove_member") /\ proc[p].code = 200 /\ proc[p].tgt # proc[p].user
    /\ MemberRows(proc[p].chat, proc[p].tgt) = {}
    /\ AdminRows(proc[p].chat, proc[p].user) # {}
    /\ \E x \in messages : x.chat = proc[p].chat
\* the admin has asked for the removal of a user who is no member
C26_WitnessAbsent ==
  \E p \in Procs :
    /\ Done(p, "remove_member") /\ proc[p].code = 404
    /\ proc[p].detail = "User is not a member of chat"
    /\ AdminRows(proc[p].chat, proc[p].user) # {}
(* C26 as stated, for every caller: in a group chat the removal of a user who
   has no membership row is answered NotFound. *)
C26_OriginalStep ==
  \A p \in Procs :
    (Finishes(p) /\ proc'[p].op = "remove_member"
       /\ (\E x \in ChatRows(proc'[p].chat) : x.is_group)
       /\ MemberRows(proc'[p].chat, proc'[p].tgt) = {})
    => proc'[p].code = 404 /\ members' = members
C26_Original == [][C26_OriginalStep]_vars

(* C27.  In every reachable state, interleaved requests included, a chat has
   at most one membership row with the admin flag set, and it is the row of
   the user who created the chat: a row with the flag set is inserted only by
   the create_chat that inserts the chat, for its requester; add_member
   inserts rows without the flag; no step changes the flag or the user of a
   row that exists. *)
C27_OneAdmin ==
  \A c \in chats : Cardinality({m \in ChatMembers(c.id) : m.admin}) <= 1
C27_Step ==
  /\ \A n \in members' :
       (n.admin /\ \A m \in members : m.id # n.id)
       => \E p \in Procs : /\ Finishes(p) /\ proc'[p].op = "create_chat"
                           /\ proc'[p].rid = n.chat /\ proc'[p].user = n.user
                           /\ \A c \in chats : c.id # n.chat
  /\ \A m \in members, n \in members' :
       m.id = n.id => n.admin = m.admin /\ n.user = m.user /\ n.chat \in {m.chat, NoId}
  /\ \A p \in Procs :
       (Finishes(p) /\ proc'[p].op = "add_member")
       => \A n \in members' \ members : ~n.admin
C27_SingleAdmin == [](C27_OneAdmin) /\ [][C27_Step]_vars
\* the creator of a group chat has added a third member: the creator's row is
\* the one admin row among the rows of the chat
C27_Witness ==
  \E p \in Procs :
    /\ Done(p, "add_member") /\ proc[p].code = 200
    /\ Cardinality(ChatMembers(proc[p].chat)) >= 3
    /\ {m.user : m \in {x \in ChatMembers(proc[p].chat) : x.admin}} = {proc[p].user}

(* C28.  A group chat is left without an admin only by its creator, the one
   admin, removing themself.  From then on the chat exists without an admin in
   every later state, and every update_chat, delete_chat, add_member and
   remove_member of another user on it, by whatever user, is answered
   Forbidden (403) and writes nothing; a member of it can still read the chat
   and its messages, post a message and remove themself. *)
Adminless(c) ==
  /\ \E x \in ChatRows(c) : x.is_group
  /\ \A m \in ChatMembers(c) : ~m.admin
AdminOps == {"update_chat", "delete_chat", "add_member"}
C28_Origin ==
  \A c \in 1..nextChat :
    (~Adminless(c) /\ Adminless(c)')
    => \E p \in Procs : /\ Finishes(p) /\ proc'[p].op = "remove_member" /\ proc'[p].code = 200
                        /\ proc'[p].chat = c /\ proc'[p].tgt = proc'[p].user
                        /\ \E m \in MemberRows(c, proc'[p].user) : m.admin
C28_Stays == \A c \in 1..nextChat : Adminless(c) => Adminless(c)'
C28_Refused ==
  \A p \in Procs :
    (/\ Finishes(p) /\ Adminless(proc'[p].chat)
     /\ \/ proc'[p].op \in AdminOps
        \/ proc'[p].op = "remove_member" /\ proc'[p].tgt # proc'[p].user)
    => proc'[p].code = 403 /\ Stored' = Stored
C28_StillUsable ==
  \A p \in Procs :
    (Finishes(p) /\ Adminless(proc'[p].chat)
       /\ MemberRows(proc'[p].chat, proc'[p].user) # {})
    => LET r == proc'[p] IN
       /\ r.op \in {"read_chat", "read_messages"} => r.code = 200
       /\ (r.op = "create_message" /\ (r.file = NoId \/ FileRows(r.file) # {}))
            => r.code = 200 /\ \E x \in messages' \ messages : x.chat = r.chat /\ x.sender = r.user
       /\ (r.op = "remove_member" /\ r.tgt = r.user)
            => r.code = 200 /\ \A m \in members' : ~(m.chat = r.chat /\ m.user = r.user)
C28_AdminlessChat == [][C28_Origin /\ C28_Stays /\ C28_Refused /\ C28_StillUsable]_vars
\* after the creator has left, the member who stayed was refused add_member
C28_Witness ==
  \E p \in Procs :
    /\ Done(p, "add_member") /\ proc[p].code = 403
    /\ Adminless(proc[p].chat)
    /\ MemberRows(proc[p].chat, proc[p].user) # {}
    /\ \E x \in messages : x.chat = proc[p].chat /\ MemberRows(x.chat, x.sender) = {}
\* after the creator has left, the member who stayed has posted a message
C28_WitnessPost ==
  \E p \in Procs :
    /\ Done(p, "create_message") /\ proc[p].code = 200
    /\ Adminless(proc[p].chat)

(* C29.  In every step, interleaved requests included, a chat that is not
   deleted keeps its is_group flag, and a chat that is no group chat keeps its
   membership rows: from its creation until it is deleted no row of it is
   added, removed or changed (add_member and remove_member are refused on it,
   update_chat changes the name at most). *)
C29_Step ==
  \A c \in chats : \A d \in chats' :
    d.id = c.id
    => /\ d.is_group = c.is_group
       /\ ~c.is_group => {m \in members' : m.chat = c.id} = ChatMembers(c.id)
C29_UpdateNameOnly ==
  \A p \in Procs :
    (Finishes(p) /\ proc'[p].op = "update_chat")
    => /\ {[x EXCEPT !.name = NoStr] : x \in chats'} = {[x EXCEPT !.name = NoStr] : x \in chats}
       /\ members' = members
C29_IndividualFrozen == [][C29_Step /\ C29_UpdateNameOnly]_vars
\* the creator of an individual chat of two has asked for a third member and
\* was refused
C29_Witness ==
  \E p \in Procs :
    /\ Done(p, "add_member") /\ proc[p].code = 400
    /\ proc[p].detail = "Cannot add members to individual chat"
    /\ \E c \in ChatRows(proc[p].chat) : ~c.is_group
    /\ Cardinality(ChatMembers(proc[p].chat)) = 2
    /\ proc[p].tgt \in Users \ MemberUsers(proc[p].chat)

(* C30.  A removal takes effect for every later request: a successful
   remove_member leaves the target without a membership row in the chat, and
   as long as a user has no membership row in a chat (until add_member gives
   one again) every read_chat, read_messages, create_message, update_message,
   delete_message and update_status (with a status value the schema accepts)
   of that user on the chat is answered NotFound (404 "Chat not found") and
   writes nothing, messages the user sent earlier included; read_chats of the
   user lists no chat in which the user has no membership row. *)
MemberOps ==
  {"read_chat", "read_messages", "create_message", "update_message", "delete_message",
   "update_status"}
C30_Revoked ==
  \A p \in Procs :
    (Finishes(p) /\ proc'[p].op = "remove_member" /\ proc'[p].code = 200)
    => \A m \in members' : ~(m.chat = proc'[p].chat /\ m.user = proc'[p].tgt)
C30_Refused ==
  \A p \in Procs :
    (Finishes(p) /\ proc'[p].op \in MemberOps
       /\ (proc'[p].op = "update_status" => ValidStatus(proc'[p].val))
       /\ MemberRows(proc'[p].chat, proc'[p].user) = {})
    => /\ proc'[p].code = 404 /\ proc'[p].detail = "Chat not found"
       /\ Stored' = Stored
C30_Listed ==
  \A p \in Procs :
    (Finishes(p) /\ proc'[p].op = "read_chats")
    => \A c \in ChatArgs : MemberRows(c, proc'[p].user) = {} => c \notin proc'[p].rows
C30_Revocation == [][C30_Revoked /\ C30_Refused /\ C30_Listed]_vars
\* a user who has left the chat has asked to edit the message they sent before
C30_Witness ==
  \E p \in Procs :
    /\ Done(p, "update_message") /\ proc[p].code = 404
    /\ ChatRows(proc[p].chat) # {} /\ ChatMembers(proc[p].chat) # {}
    /\ MemberRows(proc[p].chat, proc[p].user) = {}
    /\ \E x \in MessageRows(proc[p].chat, proc[p].msg) : x.sender = proc[p].user
\* a user removed from the one chat they were in has listed their chats
C30_WitnessList ==
  \E p \in Procs :
    /\ Done(p, "read_chats") /\ proc[p].code = 200 /\ proc[p].rows = {}
    /\ \E x \in statuses : x.user = proc[p].user
    /\ chats # {}

====
